---------------------------- MODULE Spec2Model ----------------------------
(***************************************************************************)
(* A model of src/VerbalExpressions.js: the VerbalExpression builder, a    *)
(* RegExp subclass that keeps four private strings (_prefixes, _source,    *)
(* _suffixes, _modifiers) and recompiles itself from them in add().        *)
(*                                                                         *)
(* JavaScript strings are sequences of one-character strings, so that      *)
(* concatenation, includes, replace and slice are computed as the code     *)
(* computes them.  JavaScript values are records tagged with their type.   *)
(***************************************************************************)
EXTENDS Integers, Sequences, FiniteSets

VARIABLES
    this,     \* the instance: its four private fields and its compiled state
    called,   \* the call in progress or just completed: [op, args]
    old,      \* the instance as it was when that call started
    result,   \* what the call produced: the instance, a value, or an exception
    calls     \* number of calls made on the instance

vars == <<this, called, old, result, calls>>

(***************************************************************************)
(* Bounds of the model.                                                    *)
(***************************************************************************)
MaxCalls == 2      \* builder calls chained on one instance
MaxStrLen == 2     \* length of the text strings handed to sanitize

(***************************************************************************)
(* JavaScript values.                                                      *)
(***************************************************************************)
Undefined == [type |-> "undefined", str |-> <<>>, num |-> 0, bool |-> FALSE, items |-> <<>>]
Str(s)    == [type |-> "string",    str |-> s,    num |-> 0, bool |-> FALSE, items |-> <<>>]
Num(n)    == [type |-> "number",    str |-> <<>>, num |-> n, bool |-> FALSE, items |-> <<>>]
Bool(b)   == [type |-> "boolean",   str |-> <<>>, num |-> 0, bool |-> b,     items |-> <<>>]
\* a RegExp object, str its source text
Rx(src)   == [type |-> "regexp",    str |-> src,  num |-> 0, bool |-> FALSE, items |-> <<>>]
\* an array of strings
Arr(a)    == [type |-> "array",     str |-> <<>>, num |-> 0, bool |-> FALSE, items |-> a]
\* the instance itself, as a return value
ThisRef   == [type |-> "this",      str |-> <<>>, num |-> 0, bool |-> FALSE, items |-> <<>>]
\* a SyntaxError raised by the RegExp engine
SyntaxError == [type |-> "SyntaxError", str |-> <<>>, num |-> 0, bool |-> FALSE, items |-> <<>>]
\* no result yet
Pending   == [type |-> "pending",   str |-> <<>>, num |-> 0, bool |-> FALSE, items |-> <<>>]

Digits == <<"0", "1", "2", "3", "4", "5", "6", "7", "8", "9">>
IsDigit(c) == \E d \in 1..10 : Digits[d] = c
DigitValue(c) == (CHOOSE d \in 1..10 : Digits[d] = c) - 1

\* Number.prototype.toString for a non-negative integer
RECURSIVE NumberToString(_)
NumberToString(n) ==
    IF n < 10 THEN <<Digits[n + 1]>>
    ELSE NumberToString(n \div 10) \o <<Digits[(n % 10) + 1]>>

RECURSIVE Join(_, _)
Join(a, sep) ==
    IF Len(a) = 0 THEN <<>>
    ELSE IF Len(a) = 1 THEN a[1]
    ELSE a[1] \o sep \o Join(Tail(a), sep)

\* ToString(value): what a template literal, += or RegExp.test makes of a value
ToString(v) ==
    CASE v.type = "string"    -> v.str
      [] v.type = "number"    -> NumberToString(v.num)
      [] v.type = "undefined" -> <<"u", "n", "d", "e", "f", "i", "n", "e", "d">>
      [] v.type = "boolean"   -> IF v.bool THEN <<"t", "r", "u", "e">>
                                 ELSE <<"f", "a", "l", "s", "e">>
      [] v.type = "regexp"    -> <<"/">> \o v.str \o <<"/">>
      [] v.type = "array"     -> Join(v.items, <<",">>)
      [] OTHER                -> <<>>

\* ToBoolean(value): the truthiness tested by `if (value)` and `enable ? a : b`
ToBoolean(v) ==
    CASE v.type = "string"    -> Len(v.str) > 0
      [] v.type = "number"    -> v.num # 0
      [] v.type = "undefined" -> FALSE
      [] v.type = "boolean"   -> v.bool
      [] OTHER                -> TRUE

\* a parameter with a default value: `enable = true`
Default(v, d) == IF v.type = "undefined" THEN d ELSE v

(***************************************************************************)
(* String.prototype.includes, replace (string pattern) and slice(0, -1).   *)
(***************************************************************************)
OccursAt(s, sub, i) == i + Len(sub) <= Len(s) /\ SubSeq(s, i + 1, i + Len(sub)) = sub

Includes(s, sub) == \E i \in 0..Len(s) : OccursAt(s, sub, i)

\* s.replace(sub, rep): only the first occurrence of sub is replaced
ReplaceFirst(s, sub, rep) ==
    IF ~Includes(s, sub) THEN s
    ELSE LET i == CHOOSE k \in 0..Len(s) :
                      OccursAt(s, sub, k) /\ \A j \in 0..(k - 1) : ~OccursAt(s, sub, j)
         IN  SubSeq(s, 1, i) \o rep \o SubSeq(s, i + Len(sub) + 1, Len(s))

\* s.slice(0, -1)
SliceDropLast(s) == IF Len(s) = 0 THEN <<>> ELSE SubSeq(s, 1, Len(s) - 1)

(***************************************************************************)
(* sanitize (static).                                                      *)
(***************************************************************************)
\* the character class of toEscape = /([\].|*?+(){}^$\\:=[])/g
toEscapeWithoutEquals ==
    {"]", ".", "|", "*", "?", "+", "(", ")", "{", "}", "^", "$", "\\", ":", "["}
toEscape ==
    {"]", ".", "|", "*", "?", "+", "(", ")", "{", "}", "^", "$", "\\", ":", "=", "["}

\* the replacement `\\${lastMatch}`, i.e. "\$&": a backslash, then the match
Replacement(match) == <<"\\">> \o match

\* value.replace(toEscape, ...) with the g flag: every match, left to right
RECURSIVE ReplaceAllToEscape(_, _)
ReplaceAllToEscape(s, i) ==
    IF i > Len(s) THEN <<>>
    ELSE IF s[i] \in toEscape
         THEN Replacement(<<s[i]>>) \o ReplaceAllToEscape(s, i + 1)
         ELSE <<s[i]>> \o ReplaceAllToEscape(s, i + 1)

sanitize(value) ==
    IF value.type = "regexp" THEN Str(value.str)
    ELSE IF value.type = "number" THEN value
    ELSE IF value.type # "string" THEN Str(<<>>)
    ELSE Str(ReplaceAllToEscape(value.str, 1))

(***************************************************************************)
(* RegExp.prototype.compile(pattern, flags), called at add's last statement.*)
(* It parses the flags and the pattern; on a syntax error it throws and    *)
(* leaves the object's compiled pattern and flags as they were.  The       *)
(* pattern grammar is the web-compatible one for patterns without the u    *)
(* flag, over the characters the builder calls of this model can produce   *)
(* (no "<", so neither look-behind nor named groups).                      *)
(***************************************************************************)
\* the flags the engine accepts
FlagVocabulary == {"g", "m", "i", "s", "u", "y"}

ValidFlags(f) ==
    /\ \A i \in 1..Len(f) : f[i] \in FlagVocabulary
    /\ \A i, j \in 1..Len(f) : i # j => f[i] # f[j]

\* code unit of a character, for the order of a class range
CharCode(c) ==
    CASE c = "!" -> 33  [] c = "$" -> 36  [] c = "(" -> 40  [] c = ")" -> 41
      [] c = "*" -> 42  [] c = "+" -> 43  [] c = "," -> 44  [] c = "-" -> 45
      [] c = "." -> 46  [] c = "/" -> 47  [] c = ":" -> 58  [] c = "=" -> 61
      [] c = "?" -> 63  [] c = "[" -> 91  [] c = "\\" -> 92 [] c = "]" -> 93
      [] c = "^" -> 94  [] c = "{" -> 123 [] c = "|" -> 124 [] c = "}" -> 125
      [] IsDigit(c) -> 48 + DigitValue(c)
      [] c = "a" -> 97  [] c = "b" -> 98  [] c = "d" -> 100 [] c = "n" -> 110
      [] c = "r" -> 114 [] c = "s" -> 115 [] c = "t" -> 116 [] c = "w" -> 119
      [] c = "z" -> 122
      [] OTHER -> 0

\* the character an escape \c denotes inside a class; -1 for a class escape
ClassEscapeCode(c) ==
    CASE c \in {"d", "D", "w", "W", "s", "S"} -> -1
      [] c = "t" -> 9
      [] c = "n" -> 10
      [] c = "r" -> 13
      [] c = "b" -> 8
      [] OTHER -> CharCode(c)

\* first index from i on that holds no decimal digit
RECURSIVE DigitsEnd(_, _)
DigitsEnd(p, i) == IF i <= Len(p) /\ IsDigit(p[i]) THEN DigitsEnd(p, i + 1) ELSE i

\* value of the decimal digits p[i..j-1]
RECURSIVE DecimalValue(_, _, _)
DecimalValue(p, i, j) ==
    IF i >= j THEN 0 ELSE DecimalValue(p, i, j - 1) * 10 + DigitValue(p[j - 1])

NoQuantifier == [ok |-> FALSE, next |-> 0, lo |-> 0, hi |-> 0]

\* the quantifier {n}, {n,} or {n,m} starting at p[i] = "{", if there is one;
\* hi = -1 stands for no upper bound
BracedQuantifier(p, i) ==
    LET a == DigitsEnd(p, i + 1) IN
    IF a = i + 1 \/ a > Len(p) THEN NoQuantifier
    ELSE IF p[a] = "}"
         THEN [ok |-> TRUE, next |-> a + 1,
               lo |-> DecimalValue(p, i + 1, a), hi |-> DecimalValue(p, i + 1, a)]
    ELSE IF p[a] # "," THEN NoQuantifier
    ELSE LET b == DigitsEnd(p, a + 1) IN
         IF b > Len(p) \/ p[b] # "}" THEN NoQuantifier
         ELSE [ok |-> TRUE, next |-> b + 1,
               lo |-> DecimalValue(p, i + 1, a),
               hi |-> IF b = a + 1 THEN -1 ELSE DecimalValue(p, a + 1, b)]

\* the class atom at p[i]: a character or an escape
ClassAtom(p, i) ==
    IF p[i] # "\\" THEN [ok |-> TRUE, next |-> i + 1, code |-> CharCode(p[i])]
    ELSE IF i = Len(p) THEN [ok |-> FALSE, next |-> 0, code |-> 0]
    ELSE [ok |-> TRUE, next |-> i + 2, code |-> ClassEscapeCode(p[i + 1])]

\* the index after the "]" that closes the class whose ranges start at p[i];
\* 0 when the class is not terminated or holds a range out of order
RECURSIVE ClassRanges(_, _)
ClassRanges(p, i) ==
    IF i > Len(p) THEN 0
    ELSE IF p[i] = "]" THEN i + 1
    ELSE LET a == ClassAtom(p, i) IN
         IF ~a.ok THEN 0
         ELSE IF a.next + 1 <= Len(p) /\ p[a.next] = "-" /\ p[a.next + 1] # "]"
              THEN LET b == ClassAtom(p, a.next + 1) IN
                   IF ~b.ok THEN 0
                   ELSE IF a.code >= 0 /\ b.code >= 0 /\ a.code > b.code THEN 0
                   ELSE ClassRanges(p, b.next)
              ELSE ClassRanges(p, a.next)

\* whether p[i..] continues a well-formed pattern, with depth groups open and
\* prev telling what precedes: "atom" (may take a quantifier), "quant" (a
\* quantifier, may take a lazy "?") or "none"
RECURSIVE ParsePattern(_, _, _, _)
ParsePattern(p, i, depth, prev) ==
    IF i > Len(p) THEN depth = 0
    ELSE LET c == p[i] IN
      CASE c = "\\" ->
             /\ i < Len(p)
             /\ ParsePattern(p, i + 2, depth,
                             IF p[i + 1] \in {"b", "B"} THEN "none" ELSE "atom")
        [] c = "(" ->
             IF i < Len(p) /\ p[i + 1] = "?"
             THEN /\ i + 2 <= Len(p)
                  /\ p[i + 2] \in {":", "=", "!"}
                  /\ ParsePattern(p, i + 3, depth + 1, "none")
             ELSE ParsePattern(p, i + 1, depth + 1, "none")
        [] c = ")" -> depth > 0 /\ ParsePattern(p, i + 1, depth - 1, "atom")
        [] c \in {"|", "^", "$"} -> ParsePattern(p, i + 1, depth, "none")
        [] c \in {"*", "+", "?"} ->
             IF prev = "atom" THEN ParsePattern(p, i + 1, depth, "quant")
             ELSE prev = "quant" /\ c = "?" /\ ParsePattern(p, i + 1, depth, "none")
        [] c = "{" ->
             LET q == BracedQuantifier(p, i) IN
             IF q.ok
             THEN /\ prev = "atom"
                  /\ (q.hi = -1 \/ q.lo <= q.hi)
                  /\ ParsePattern(p, q.next, depth, "quant")
             ELSE ParsePattern(p, i + 1, depth, "atom")
        [] c = "[" ->
             LET e == ClassRanges(p, IF i < Len(p) /\ p[i + 1] = "^"
                                     THEN i + 2 ELSE i + 1)
             IN  e # 0 /\ ParsePattern(p, e, depth, "atom")
        [] OTHER -> ParsePattern(p, i + 1, depth, "atom")

ValidPattern(p) == ParsePattern(p, 1, 0, "none")

\* whether compile(pattern, flags) returns (TRUE) or throws a SyntaxError
CompileOk(pattern, flags) == ValidFlags(flags) /\ ValidPattern(pattern)

(***************************************************************************)
(* The instance methods.  A method takes and returns an execution          *)
(* [obj, threw]: the instance, and whether an exception is propagating.    *)
(* Once threw is set, the statements that follow are skipped.              *)
(***************************************************************************)
\* constructor: super('', 'gm') and the four private fields
constructor ==
    [_prefixes |-> <<>>, _source |-> <<>>, _suffixes |-> <<>>,
     _modifiers |-> <<"g", "m">>,
     source |-> <<>>, flags |-> <<"g", "m">>]

Enter(obj) == [obj |-> obj, threw |-> FALSE]

\* add(value = ''): value is the string to append
add(e, value) ==
    IF e.threw THEN e
    ELSE LET o == [e.obj EXCEPT !._source = @ \o value]
             pattern == o._prefixes \o o._source \o o._suffixes
         IN  IF CompileOk(pattern, o._modifiers)
             THEN [obj |-> [o EXCEPT !.source = pattern, !.flags = o._modifiers],
                   threw |-> FALSE]
             ELSE [obj |-> o, threw |-> TRUE]

startOfLine(e, enable) ==
    add([e EXCEPT !.obj._prefixes =
             IF ToBoolean(Default(enable, Bool(TRUE))) THEN <<"^">> ELSE <<>>],
        <<>>)

endOfLine(e, enable) ==
    add([e EXCEPT !.obj._suffixes =
             IF ToBoolean(Default(enable, Bool(TRUE))) THEN <<"$">> ELSE <<>>],
        <<>>)

then(e, value) ==
    add(e, <<"(", "?", ":">> \o ToString(sanitize(value)) \o <<")">>)

find(e, value) == then(e, value)

maybe(e, value) ==
    add(e, <<"(", "?", ":">> \o ToString(sanitize(value)) \o <<")", "?">>)

or(e, value) ==
    LET e1 == [e EXCEPT !.obj._prefixes = @ \o <<"(", "?", ":">>,
                        !.obj._suffixes = <<")">> \o @]
        e2 == add(e1, <<")", "|", "(", "?", ":">>)
    IN  IF ToBoolean(value) THEN then(e2, value) ELSE e2

anything(e) == add(e, <<"(", "?", ":", ".", "*", ")">>)

\* `if (Array.isArray(value)) value = value.join('')`
JoinIfArray(value) ==
    IF value.type = "array" THEN Str(Join(value.items, <<>>)) ELSE value

anythingBut(e, value) ==
    add(e, <<"(", "?", ":", "[", "^">> \o ToString(sanitize(JoinIfArray(value)))
           \o <<"]", "*", ")">>)

something(e) == add(e, <<"(", "?", ":", ".", "+", ")">>)

somethingBut(e, value) ==
    add(e, <<"(", "?", ":", "[", "^">> \o ToString(sanitize(JoinIfArray(value)))
           \o <<"]", "+", ")">>)

anyOf(e, value) ==
    add(e, <<"[">> \o ToString(sanitize(JoinIfArray(value))) \o <<"]">>)

any(e, value) == anyOf(e, value)

not(e, value) ==
    add(e, <<"(", "?", "!">> \o ToString(sanitize(value)) \o <<")">>)

\* the loop of range: from i on, two arguments at a time
RECURSIVE RangeValue(_, _)
RangeValue(ranges, i) ==
    IF i >= Len(ranges) THEN <<>>
    ELSE ToString(sanitize(ranges[i])) \o <<"-">> \o ToString(sanitize(ranges[i + 1]))
         \o RangeValue(ranges, i + 2)

range(e, ranges) == add(e, <<"[">> \o RangeValue(ranges, 1) \o <<"]">>)

lineBreak(e) ==
    add(e, <<"(", "?", ":", "\\", "r", "\\", "n", "|", "\\", "r", "|", "\\", "n", ")">>)

br(e) == lineBreak(e)

tab(e) == add(e, <<"\\", "t">>)

word(e) == add(e, <<"\\", "w", "+">>)

digit(e) == add(e, <<"\\", "d">>)

whitespace(e) == add(e, <<"\\", "s">>)

\* addModifier without the includes test
addModifierAlways(e, modifier) ==
    add([e EXCEPT !.obj._modifiers = @ \o modifier], <<>>)

\* modifier is a string
addModifier(e, modifier) ==
    add(IF ~Includes(e.obj._modifiers, modifier)
        THEN [e EXCEPT !.obj._modifiers = @ \o modifier]
        ELSE e,
        <<>>)

removeModifier(e, modifier) ==
    add([e EXCEPT !.obj._modifiers = ReplaceFirst(@, modifier, <<>>)], <<>>)

withAnyCase(e, enable) ==
    IF ToBoolean(Default(enable, Bool(TRUE)))
    THEN addModifier(e, <<"i">>) ELSE removeModifier(e, <<"i">>)

stopAtFirst(e, enable) ==
    IF ToBoolean(Default(enable, Bool(TRUE)))
    THEN removeModifier(e, <<"g">>) ELSE addModifier(e, <<"g">>)

searchOneLine(e, enable) ==
    IF ToBoolean(Default(enable, Bool(TRUE)))
    THEN removeModifier(e, <<"m">>) ELSE addModifier(e, <<"m">>)

\* isInteger.test(argument) with isInteger = /\d+/: some digit in ToString
IsIntegerTest(argument) ==
    LET t == ToString(argument) IN \E i \in 1..Len(t) : IsDigit(t[i])

\* quantity.filter(...)
RECURSIVE FilterIsInteger(_)
FilterIsInteger(quantity) ==
    IF Len(quantity) = 0 THEN <<>>
    ELSE IF IsIntegerTest(Head(quantity))
         THEN <<Head(quantity)>> \o FilterIsInteger(Tail(quantity))
         ELSE FilterIsInteger(Tail(quantity))

\* values.join(',')
RECURSIVE JoinValues(_)
JoinValues(values) ==
    IF Len(values) = 0 THEN <<>>
    ELSE IF Len(values) = 1 THEN ToString(values[1])
    ELSE ToString(values[1]) \o <<",">> \o JoinValues(Tail(values))

repeatPrevious(e, quantity) ==
    LET values == FilterIsInteger(quantity) IN
    IF Len(values) = 0 \/ Len(values) > 2 THEN e
    ELSE add(e, <<"{">> \o JoinValues(values) \o <<"}">>)

oneOrMore(e) == add(e, <<"+">>)

multiple(e, value, lower, upper) ==
    LET e1 == IF value.type # "undefined"
              THEN add(e, <<"(", "?", ":">> \o ToString(sanitize(value)) \o <<")">>)
              ELSE e
    IN  IF lower.type = "undefined" /\ upper.type = "undefined"
        THEN add(e1, <<"*">>)
        ELSE IF lower.type # "undefined" /\ upper.type = "undefined"
        THEN add(e1, <<"{">> \o ToString(lower) \o <<",", "}">>)
        ELSE IF lower.type # "undefined" /\ upper.type # "undefined"
        THEN add(e1, <<"{">> \o ToString(lower) \o <<",">> \o ToString(upper) \o <<"}">>)
        ELSE e1

beginCapture(e) ==
    add([e EXCEPT !.obj._suffixes = @ \o <<")">>], <<"(">>)

\* endCapture slicing _source instead of _suffixes
endCaptureSlicingSource(e) ==
    add([e EXCEPT !.obj._source = SliceDropLast(@)], <<")">>)

endCapture(e) ==
    add([e EXCEPT !.obj._suffixes = SliceDropLast(@)], <<")">>)

(***************************************************************************)
(* The arguments the calls are made with.                                  *)
(***************************************************************************)
Values ==
    {Undefined, Str(<<>>), Str(<<"a">>), Str(<<".">>), Num(0), Rx(<<"a", "|", "b">>)}

CharacterArgs == Values \cup {Arr(<<(<<"a">>), (<<"b">>)>>)}

EnableArgs == {Undefined, Bool(TRUE), Bool(FALSE)}

ModifierArgs == {<<>>, <<"i">>, <<"g">>, <<"s">>, <<"x">>, <<"g", "i">>}

RangeArgs ==
    {<<>>,
     <<Str(<<"a">>)>>,
     <<Str(<<"a">>), Str(<<"z">>)>>,
     <<Str(<<"z">>), Str(<<"a">>)>>,
     <<Str(<<"a">>), Str(<<"z">>), Str(<<"0">>), Str(<<"9">>)>>}

QuantityArgs ==
    {<<>>,
     <<Num(1)>>,
     <<Num(1), Num(2)>>,
     <<Num(1), Num(2), Num(3)>>,
     <<Str(<<"a">>)>>,
     <<Str(<<"1", "a">>)>>,
     <<Str(<<"a">>), Num(2)>>}

BoundArgs == {Undefined, Num(1), Num(2)}

(***************************************************************************)
(* The state machine: one instance, and the calls chained on it.           *)
(***************************************************************************)
Init ==
    /\ this = constructor
    /\ called = [op |-> "constructor", args |-> <<>>]
    /\ old = constructor
    /\ result = ThisRef
    /\ calls = 0

\* a call of method op with args, whose body evaluates to the execution e
Call(op, args, e) ==
    /\ calls < MaxCalls
    /\ calls' = calls + 1
    /\ called' = [op |-> op, args |-> args]
    /\ old' = this
    /\ this' = e.obj
    /\ result' = IF e.threw THEN SyntaxError ELSE ThisRef

StartOfLine ==
    \E enable \in EnableArgs :
        Call("startOfLine", <<enable>>, startOfLine(Enter(this), enable))

EndOfLine ==
    \E enable \in EnableArgs :
        Call("endOfLine", <<enable>>, endOfLine(Enter(this), enable))

Then == \E value \in Values : Call("then", <<value>>, then(Enter(this), value))

Find == \E value \in Values : Call("find", <<value>>, find(Enter(this), value))

Maybe == \E value \in Values : Call("maybe", <<value>>, maybe(Enter(this), value))

Or == \E value \in Values : Call("or", <<value>>, or(Enter(this), value))

Anything == Call("anything", <<>>, anything(Enter(this)))

AnythingBut ==
    \E value \in CharacterArgs :
        Call("anythingBut", <<value>>, anythingBut(Enter(this), value))

Something == Call("something", <<>>, something(Enter(this)))

SomethingBut ==
    \E value \in CharacterArgs :
        Call("somethingBut", <<value>>, somethingBut(Enter(this), value))

AnyOf ==
    \E value \in CharacterArgs : Call("anyOf", <<value>>, anyOf(Enter(this), value))

Any == \E value \in CharacterArgs : Call("any", <<value>>, any(Enter(this), value))

Not == \E value \in Values : Call("not", <<value>>, not(Enter(this), value))

Range == \E ranges \in RangeArgs : Call("range", ranges, range(Enter(this), ranges))

LineBreak == Call("lineBreak", <<>>, lineBreak(Enter(this)))

Br == Call("br", <<>>, br(Enter(this)))

Tab == Call("tab", <<>>, tab(Enter(this)))

Word == Call("word", <<>>, word(Enter(this)))

Digit == Call("digit", <<>>, digit(Enter(this)))

Whitespace == Call("whitespace", <<>>, whitespace(Enter(this)))

AddModifier ==
    \E modifier \in ModifierArgs :
        Call("addModifier", <<Str(modifier)>>, addModifier(Enter(this), modifier))

RemoveModifier ==
    \E modifier \in ModifierArgs :
        Call("removeModifier", <<Str(modifier)>>, removeModifier(Enter(this), modifier))

WithAnyCase ==
    \E enable \in EnableArgs :
        Call("withAnyCase", <<enable>>, withAnyCase(Enter(this), enable))

StopAtFirst ==
    \E enable \in EnableArgs :
        Call("stopAtFirst", <<enable>>, stopAtFirst(Enter(this), enable))

SearchOneLine ==
    \E enable \in EnableArgs :
        Call("searchOneLine", <<enable>>, searchOneLine(Enter(this), enable))

RepeatPrevious ==
    \E quantity \in QuantityArgs :
        Call("repeatPrevious", quantity, repeatPrevious(Enter(this), quantity))

OneOrMore == Call("oneOrMore", <<>>, oneOrMore(Enter(this)))

Multiple ==
    \E value \in {Undefined, Str(<<"a">>)}, lower, upper \in BoundArgs :
        Call("multiple", <<value, lower, upper>>,
             multiple(Enter(this), value, lower, upper))

BeginCapture == Call("beginCapture", <<>>, beginCapture(Enter(this)))

EndCapture == Call("endCapture", <<>>, endCapture(Enter(this)))

Next ==
    \/ StartOfLine \/ EndOfLine \/ Then \/ Find \/ Maybe \/ Or
    \/ Anything \/ AnythingBut \/ Something \/ SomethingBut \/ AnyOf \/ Any
    \/ Not \/ Range \/ LineBreak \/ Br \/ Tab \/ Word \/ Digit \/ Whitespace
    \/ AddModifier \/ RemoveModifier \/ WithAnyCase \/ StopAtFirst \/ SearchOneLine
    \/ RepeatPrevious \/ OneOrMore \/ Multiple \/ BeginCapture \/ EndCapture

Spec == Init /\ [][Next]_vars

(***************************************************************************)
(* The static sanitize, called on its own: the argument is drawn at the    *)
(* start, the call then returns.                                           *)
(***************************************************************************)
SanitizeAlphabet ==
    {"]", ".", "|", "*", "?", "+", "(", ")", "{", "}", "^", "$", "\\", ":", "=", "[",
     "a", "/", "-"}

SanitizeArgs ==
    {Str(s) : s \in UNION {[1..n -> SanitizeAlphabet] : n \in 0..MaxStrLen}}
    \cup {Undefined, Num(0), Num(15), Bool(TRUE), Bool(FALSE),
          Rx(<<"a", "|", "b">>), Rx(<<"\\", ".">>), Arr(<<(<<"a">>), (<<".">>)>>)}

SanitizeInit ==
    /\ this = constructor
    /\ \E value \in SanitizeArgs : called = [op |-> "sanitize", args |-> <<value>>]
    /\ old = constructor
    /\ result = Pending
    /\ calls = 0

Sanitize ==
    /\ called.op = "sanitize"
    /\ result = Pending
    /\ result' = sanitize(called.args[1])
    /\ UNCHANGED <<this, called, old, calls>>

SanitizeSpec == SanitizeInit /\ [][Sanitize]_vars

(***************************************************************************)
(* Vocabulary of the properties.                                           *)
(***************************************************************************)
BuilderCall == called.op \notin {"constructor", "sanitize"}

Returned == result = ThisRef

Threw == result = SyntaxError

Argument == called.args[1]

Enabled(v) == ToBoolean(Default(v, Bool(TRUE)))

IsPrefixOf(s, t) == Len(s) <= Len(t) /\ SubSeq(t, 1, Len(s)) = s

Characters(s) == {s[i] : i \in 1..Len(s)}

SameAssembly(a, b) ==
    /\ a._prefixes = b._prefixes
    /\ a._source = b._source
    /\ a._suffixes = b._suffixes
    /\ a._modifiers = b._modifiers

(***************************************************************************)
(* C1.  After any sequence of builder calls the compiled pattern equals    *)
(* _prefixes + _source + _suffixes and the compiled flags equal            *)
(* _modifiers; no call, a failing one included, leaves them stale.         *)
(* Refuted: add appends to _source before compile, and a compile that      *)
(* throws leaves the compiled pattern of the previous call.                *)
(***************************************************************************)
C1_CompiledNeverStale ==
    /\ this.source = this._prefixes \o this._source \o this._suffixes
    /\ this.flags = this._modifiers

(***************************************************************************)
(* C2.  _modifiers never holds a character twice and holds only            *)
(* characters of the flag vocabulary g, m, i, s, u, y, whatever strings    *)
(* addModifier and removeModifier are called with.                         *)
(* Refuted: addModifier appends any string that is not yet a substring.    *)
(***************************************************************************)
C2_ModifiersAreFlagSet ==
    /\ Characters(this._modifiers) \subseteq {"g", "m", "i", "s", "u", "y"}
    /\ Cardinality(Characters(this._modifiers)) = Len(this._modifiers)

(***************************************************************************)
(* C3.  endCapture removes from _suffixes at most the ")" of a pending     *)
(* beginCapture: never the "$" of endOfLine, and nothing when no           *)
(* beginCapture is pending (here: when the body holds no capture opener,   *)
(* every "(" in it being the "(?" of a non-capturing group).               *)
(* Refuted: endCapture drops the last character of _suffixes, whatever     *)
(* it is.                                                                  *)
(***************************************************************************)
NoCaptureOpened(o) ==
    \A i \in 1..Len(o._source) :
        o._source[i] = "(" => (i < Len(o._source) /\ o._source[i + 1] = "?")

C3_EndCaptureRemovesOnlyItsCloser ==
    called.op = "endCapture" =>
        /\ (Len(old._suffixes) > 0 /\ old._suffixes[Len(old._suffixes)] = "$"
               => this._suffixes = old._suffixes)
        /\ (NoCaptureOpened(old) => this._suffixes = old._suffixes)

(***************************************************************************)
(* C4.  No builder call raises: every call returns the builder.            *)
(* Refuted: every call that reaches add compiles the assembled pattern,    *)
(* and compile throws a SyntaxError on a malformed pattern or flag string. *)
(***************************************************************************)
C4_NoCallRaises == BuilderCall => Returned

(***************************************************************************)
(* C5.  sanitize(x) of a text x is x with exactly one backslash put before *)
(* each metacharacter and every other character kept in place (so it is x  *)
(* when x holds no metacharacter); a value that is no string, number or    *)
(* RegExp sanitizes to the empty string.                                   *)
(***************************************************************************)
Metacharacters ==
    {"]", ".", "|", "*", "?", "+", "(", ")", "{", "}", "^", "$", "\\", ":", "=", "["}

\* number of metacharacters among x[1..i]
MetaCount(x, i) == Cardinality({j \in 1..i : x[j] \in Metacharacters})

C6_OrAppendsEveryGivenValue ==
    (called.op = "or" /\ Returned) =>
        /\ this._prefixes = old._prefixes \o <<"(", "?", ":">>
        /\ this._suffixes = <<")">> \o old._suffixes
        /\ this._source =
               old._source \o <<")", "|", "(", "?", ":">>
               \o (IF Argument.type = "undefined" THEN <<>>
                   ELSE <<"(", "?", ":">> \o ToString(sanitize(Argument)) \o <<")">>)

(***************************************************************************)
(* C7.  repeatPrevious with no or more than two numeric arguments changes  *)
(* nothing; with one or two it appends "{n}" or "{n,m}"; arguments that    *)
(* are not numeric do not count and do not appear in what is appended.     *)
(* Refuted: an argument counts as soon as its text holds a digit.          *)
(***************************************************************************)
IsNumeric(v) ==
    \/ v.type = "number"
    \/ v.type = "string" /\ Len(v.str) > 0 /\ \A i \in 1..Len(v.str) : IsDigit(v.str[i])

RECURSIVE NumericArguments(_)
NumericArguments(a) ==
    IF Len(a) = 0 THEN <<>>
    ELSE IF IsNumeric(Head(a)) THEN <<Head(a)>> \o NumericArguments(Tail(a))
    ELSE NumericArguments(Tail(a))

C7_RepeatPreviousCountsNumericArguments ==
    called.op = "repeatPrevious" =>
        LET n == NumericArguments(called.args) IN
        IF Len(n) = 0 \/ Len(n) > 2 THEN this = old
        ELSE /\ this._source =
                    old._source \o <<"{">> \o ToString(n[1])
                    \o (IF Len(n) = 2 THEN <<",">> \o ToString(n[2]) ELSE <<>>) \o <<"}">>
             /\ this._prefixes = old._prefixes
             /\ this._suffixes = old._suffixes
             /\ this._modifiers = old._modifiers

(***************************************************************************)
(* C8.  Whatever flag calls came before: after stopAtFirst(true) the flags *)
(* hold no "g" and after stopAtFirst(false) they hold it; likewise         *)
(* searchOneLine and "m"; after withAnyCase(true) they hold "i" and after  *)
(* withAnyCase(false) they do not.                                         *)
(* Refuted: removeModifier removes one occurrence, and addModifier of a    *)
(* longer string (C2) can have put a second one.                           *)
(***************************************************************************)
C8_TogglesSetTheirFlag ==
    /\ called.op = "stopAtFirst" =>
           (Enabled(Argument) <=> "g" \notin Characters(this._modifiers))
    /\ called.op = "searchOneLine" =>
           (Enabled(Argument) <=> "m" \notin Characters(this._modifiers))
    /\ called.op = "withAnyCase" =>
           (Enabled(Argument) <=> "i" \in Characters(this._modifiers))

(***************************************************************************)
(* C9.  Flags behave as a set: addModifier(f) of a flag already in         *)
(* _modifiers and removeModifier(f) of a flag not in it leave _modifiers,  *)
(* prefix, body and suffix unchanged; and in every reachable state,        *)
(* addModifier(f) followed by removeModifier(f), for a flag character f    *)
(* not in _modifiers, gives back the _modifiers of before.                 *)
(***************************************************************************)
C9_FlagsBehaveAsASet ==
    /\ (called.op = "addModifier" /\ Includes(old._modifiers, Argument.str))
           => SameAssembly(this, old)
    /\ (called.op = "removeModifier" /\ ~Includes(old._modifiers, Argument.str))
           => SameAssembly(this, old)
    /\ \A f \in ModifierArgs :
           (Len(f) = 1 /\ ~Includes(this._modifiers, f)) =>
               LET added == addModifier(Enter(this), f).obj
                   removed == removeModifier(Enter(added), f).obj
               IN  /\ Includes(added._modifiers, f)
                   /\ removed._modifiers = this._modifiers

C9_Witness ==
    /\ called.op = "addModifier"
    /\ Argument = Str(<<"i">>)
    /\ old._modifiers = <<"g", "m", "i">>
    /\ this._modifiers = <<"g", "m", "i">>

(***************************************************************************)
(* C10.  The body is append-only: for every builder call the body before   *)
(* the call is a prefix of the body after it, and the anchor calls and the *)
(* flag calls leave the body as it was.                                    *)
(***************************************************************************)
C10_BodyIsAppendOnly ==
    BuilderCall =>
        /\ IsPrefixOf(old._source, this._source)
        /\ called.op \in {"startOfLine", "endOfLine", "addModifier", "removeModifier",
                          "withAnyCase", "stopAtFirst", "searchOneLine"}
               => this._source = old._source

C10_Witness ==
    /\ called.op = "endCapture"
    /\ old._source = <<"(">>
    /\ this._source = <<"(", ")">>

=============================================================================
